---------------------------- MODULE Spec2Model ----------------------------
(* Model of component_1_basic_connection: basic_connection.py (main,      *)
(* setup_gemini, list_available_models, ask_question, display_response)   *)
(* and check_models.py (main).  One behaviour is one run of one of the    *)
(* two scripts against a provider whose answers are chosen at each call.  *)
EXTENDS Integers, Sequences, FiniteSets

VARIABLES program, api_key, pc, models, working_models, model_name, model,
          response, out, calls, exc

vars == <<program, api_key, pc, models, working_models, model_name, model,
          response, out, calls, exc>>

(* ---------------------------------------------------------------------- *)
(* Bounds                                                                 *)
(* ---------------------------------------------------------------------- *)
MaxModels == 3
MaxCandidates == 2

(* ---------------------------------------------------------------------- *)
(* Python values                                                          *)
(* ---------------------------------------------------------------------- *)
NoneStr == "<None>"
NoneVal == [none |-> TRUE, val |-> <<>>]
Some(x) == [none |-> FALSE, val |-> x]

Range(s) == {s[i] : i \in 1..Len(s)}

\* bounded sequences over a set
SeqUpTo(S, n) == UNION {[1..k -> S] : k \in 0..n}

\* `not x` for an optional string only treating None as false-y
PyNotStrNoneOnly(s) == s = NoneStr
\* `not x` for an optional string: None and "" are both false-y
PyNotStr(s) == s = NoneStr \/ s = ""

\* `not x` for an optional list: None and [] are both false-y
PyNotList(m) == m.none \/ m.val = <<>>

(* ---------------------------------------------------------------------- *)
(* Provider data                                                          *)
(* ---------------------------------------------------------------------- *)
preferred_models == <<"models/gemini-2.5-flash", "models/gemini-2.0-flash",
                      "models/gemini-flash-latest">>

ModelNames == Range(preferred_models) \cup {"models/a", "models/b"}

MethodSets == {{"generateContent", "countTokens"}, {"embedContent"}}

Descriptors == [name : ModelNames, supported_generation_methods : MethodSets]

Candidates == {[finish_reason |-> "STOP", safety_ratings |-> <<"HARASSMENT", "HATE">>],
               [finish_reason |-> "SAFETY", safety_ratings |-> <<>>]}

Responses == [text : {"An AI agent is ..."}, candidates : SeqUpTo(Candidates, MaxCandidates)]

ApiKeys == {NoneStr, "", "key"}

\* 'generateContent' in model.supported_generation_methods
supports_generate(d) == "generateContent" \in d.supported_generation_methods

(* ---------------------------------------------------------------------- *)
(* Model selection (setup_gemini, lines 78-98)                            *)
(* ---------------------------------------------------------------------- *)
RECURSIVE AllNames(_)
\* a loop that appends every name, capable or not
AllNames(ms) ==
    IF ms = <<>> THEN <<>> ELSE <<Head(ms).name>> \o AllNames(Tail(ms))

RECURSIVE WorkingModels(_)
\* for model in models: if 'generateContent' in ...: working_models.append(model.name)
WorkingModels(ms) ==
    IF ms = <<>> THEN <<>>
    ELSE (IF supports_generate(Head(ms)) THEN <<Head(ms).name>> ELSE <<>>)
         \o WorkingModels(Tail(ms))

RECURSIVE FirstPreferredFrom(_, _)
\* for preferred in preferred_models: if preferred in working_models: ...; break
FirstPreferredFrom(i, working) ==
    IF i > Len(preferred_models) THEN NoneStr
    ELSE IF preferred_models[i] \in Range(working) THEN preferred_models[i]
    ELSE FirstPreferredFrom(i + 1, working)

RECURSIVE FirstWorkingPreferred(_)
\* the loop run over working_models instead of over preferred_models
FirstWorkingPreferred(working) ==
    IF working = <<>> THEN NoneStr
    ELSE IF Head(working) \in Range(preferred_models) THEN Head(working)
    ELSE FirstWorkingPreferred(Tail(working))

\* selection that falls back to the last capable model
SelectModelNameLast(working) ==
    LET p == FirstPreferredFrom(1, working)
    IN  IF PyNotStr(p) THEN working[Len(working)] ELSE p

\* selection whose preference loop follows the order of working_models
SelectModelNameByPosition(working) ==
    LET p == FirstWorkingPreferred(working)
    IN  IF PyNotStr(p) THEN working[1] ELSE p

\* lines 89-98: model_name from the preference loop, else working_models[0]
SelectModelName(working) ==
    LET p == FirstPreferredFrom(1, working)
    IN  IF PyNotStr(p) THEN working[1] ELSE p

(* ---------------------------------------------------------------------- *)
(* Console output and provider calls                                      *)
(* ---------------------------------------------------------------------- *)
Msg(t) == [tag |-> t, val |-> <<>>]
MsgV(t, v) == [tag |-> t, val |-> v]
Call(f, a, r, v) == [fn |-> f, arg |-> a, raised |-> r, val |-> v]

RECURSIVE ModelLines(_)
\* the per-model block printed by the listing loop (lines 33-42)
ModelLines(ms) ==
    IF ms = <<>> THEN <<>>
    ELSE <<MsgV("Model", <<Head(ms).name>>)>> \o ModelLines(Tail(ms))

Printed(t) == \E i \in 1..Len(out) : out[i].tag = t

(* ---------------------------------------------------------------------- *)
(* State                                                                  *)
(* ---------------------------------------------------------------------- *)
Init ==
    /\ program \in {"basic_connection", "check_models"}
    /\ api_key \in ApiKeys
    /\ pc = "main"
    /\ models = NoneVal
    /\ working_models = <<>>
    /\ model_name = NoneStr
    /\ model = NoneStr
    /\ response = NoneVal
    /\ out = <<>>
    /\ calls = <<>>
    /\ exc = NoneStr

(* ---------------------------------------------------------------------- *)
(* basic_connection.py                                                    *)
(* ---------------------------------------------------------------------- *)
\* main, lines 165-170: banner, then enter setup_gemini
MainStart ==
    /\ program = "basic_connection" /\ pc = "main"
    /\ out' = Append(out, Msg("Banner"))
    /\ pc' = "setup_gemini"
    /\ UNCHANGED <<program, api_key, models, working_models, model_name,
                   model, response, calls, exc>>

\* setup_gemini, lines 62-68: no credential, guidance, return None
SetupMissingKey ==
    /\ program = "basic_connection" /\ pc = "setup_gemini"
    /\ PyNotStr(api_key)
    /\ out' = Append(out, Msg("KeyNotFound"))
    /\ model' = NoneStr
    /\ pc' = "main_check"
    /\ UNCHANGED <<program, api_key, models, working_models, model_name,
                   response, calls, exc>>

\* setup_gemini, line 71: genai.configure(api_key=api_key)
SetupConfigure ==
    /\ program = "basic_connection" /\ pc = "setup_gemini"
    /\ ~PyNotStr(api_key)
    /\ calls' = Append(calls, Call("configure", api_key, FALSE, <<>>))
    /\ pc' = "list_available_models"
    /\ UNCHANGED <<program, api_key, models, working_models, model_name,
                   model, response, out, exc>>

RECURSIVE CapableOnly(_)
\* a listing that drops the descriptors without generateContent
CapableOnly(ms) ==
    IF ms = <<>> THEN <<>>
    ELSE (IF supports_generate(Head(ms)) THEN <<Head(ms)>> ELSE <<>>)
         \o CapableOnly(Tail(ms))

\* a listing that returns None for an empty provider answer
ListedEmptyIsNone(provided) ==
    IF provided = <<>> THEN NoneVal ELSE Some(provided)

\* a listing that returns only the capable descriptors
ListedCapableOnly(provided) == Some(CapableOnly(provided))

\* list_available_models, lines 28 and 44: models = list(...); return models
Listed(provided) == Some(provided)

\* list_available_models, lines 26-48, called from setup_gemini line 74
ListAvailableModels ==
    /\ program = "basic_connection" /\ pc = "list_available_models"
    /\ \/ \E provided \in SeqUpTo(Descriptors, MaxModels) :
            /\ calls' = Append(calls, Call("list_models", <<>>, FALSE, provided))
            /\ out' = out \o <<Msg("Checking"), Msg("AvailableModels")>>
                          \o ModelLines(provided)
            /\ models' = Listed(provided)
       \/ /\ calls' = Append(calls, Call("list_models", <<>>, TRUE, <<>>))
          /\ out' = out \o <<Msg("Checking"), Msg("ErrorListing")>>
          /\ models' = NoneVal
    /\ pc' = "setup_select"
    /\ UNCHANGED <<program, api_key, working_models, model_name, model,
                   response, exc>>

\* setup_gemini, lines 75-108: filter, choose, build the model instance
SetupSelect ==
    /\ program = "basic_connection" /\ pc = "setup_select"
    /\ IF PyNotList(models)
       THEN /\ model' = NoneStr
            /\ UNCHANGED <<working_models, model_name, out>>
       ELSE LET working == WorkingModels(models.val) IN
            /\ working_models' = working
            /\ IF working = <<>>
               THEN /\ out' = Append(out, Msg("NoGenerateContent"))
                    /\ model' = NoneStr
                    /\ UNCHANGED model_name
               ELSE LET name == SelectModelName(working) IN
                    /\ model_name' = name
                    /\ model' = name
                    /\ out' = out \o <<MsgV("UsingModel", <<name>>),
                                       Msg("Configured"),
                                       MsgV("UsingModel", <<name>>)>>
    /\ pc' = "main_check"
    /\ UNCHANGED <<program, api_key, models, response, calls, exc>>

\* main that goes on to ask whatever setup_gemini returned
MainCheckModelAlwaysAsk ==
    /\ program = "basic_connection" /\ pc = "main_check"
    /\ pc' = "ask_question"
    /\ UNCHANGED <<program, api_key, models, working_models, model_name,
                   model, response, out, calls, exc>>

\* main, lines 171-172: if not model: return
MainCheckModel ==
    /\ program = "basic_connection" /\ pc = "main_check"
    /\ pc' = IF model = NoneStr THEN "done" ELSE "ask_question"
    /\ UNCHANGED <<program, api_key, models, working_models, model_name,
                   model, response, out, calls, exc>>

\* ask_question, lines 125-130, called from main line 176; no handler
\* encloses model.generate_content, so a raise leaves main
AskQuestion ==
    /\ program = "basic_connection" /\ pc = "ask_question"
    /\ out' = Append(out, Msg("Sending"))
    /\ \/ \E r \in Responses :
            /\ calls' = Append(calls, Call("generate_content", model, FALSE, r))
            /\ response' = Some(r)
            /\ pc' = "display_response"
            /\ UNCHANGED exc
       \/ /\ calls' = Append(calls, Call("generate_content", model, TRUE, <<>>))
          /\ exc' = "GenerationError"
          /\ pc' = "crashed"
          /\ UNCHANGED response
    /\ UNCHANGED <<program, api_key, models, working_models, model_name, model>>

\* display_response, lines 145-155: candidates[0] raises IndexError on []
DisplayResponse ==
    /\ program = "basic_connection" /\ pc = "display_response"
    /\ LET r == response.val
           head == <<MsgV("ResponseText", <<r.text>>),
                     MsgV("NumCandidates", <<Len(r.candidates)>>)>>
       IN  IF Len(r.candidates) = 0
           THEN /\ out' = out \o head
                /\ exc' = "IndexError"
                /\ pc' = "crashed"
           ELSE /\ out' = out \o head \o
                      <<MsgV("FinishReason", <<r.candidates[1].finish_reason>>),
                        MsgV("SafetyRatings", <<Len(r.candidates[1].safety_ratings)>>)>>
                /\ pc' = "complete"
                /\ UNCHANGED exc
    /\ UNCHANGED <<program, api_key, models, working_models, model_name,
                   model, response, calls>>

\* main, lines 181-186: closing messages
MainComplete ==
    /\ program = "basic_connection" /\ pc = "complete"
    /\ out' = Append(out, Msg("Complete"))
    /\ pc' = "done"
    /\ UNCHANGED <<program, api_key, models, working_models, model_name,
                   model, response, calls, exc>>

(* ---------------------------------------------------------------------- *)
(* check_models.py                                                        *)
(* ---------------------------------------------------------------------- *)
\* main, lines 12-17: no credential, message, return
CheckModelsMissingKey ==
    /\ program = "check_models" /\ pc = "main"
    /\ PyNotStr(api_key)
    /\ out' = Append(out, Msg("KeyNotFound"))
    /\ pc' = "done"
    /\ UNCHANGED <<program, api_key, models, working_models, model_name,
                   model, response, calls, exc>>

\* main, line 20: genai.configure(api_key=api_key)
CheckModelsConfigure ==
    /\ program = "check_models" /\ pc = "main"
    /\ ~PyNotStr(api_key)
    /\ calls' = Append(calls, Call("configure", api_key, FALSE, <<>>))
    /\ pc' = "list_models"
    /\ UNCHANGED <<program, api_key, models, working_models, model_name,
                   model, response, out, exc>>

\* main, lines 22-59: list, report the usable models, or report the error
CheckModelsList ==
    /\ program = "check_models" /\ pc = "list_models"
    /\ \/ \E provided \in SeqUpTo(Descriptors, MaxModels) :
            LET generate_models == WorkingModels(provided) IN
            /\ calls' = Append(calls, Call("list_models", <<>>, FALSE, provided))
            /\ models' = Some(provided)
            /\ working_models' = generate_models
            /\ out' = out \o <<Msg("Fetching"), Msg("AvailableModels")>>
                          \o ModelLines(provided)
                          \o (IF generate_models = <<>>
                              THEN <<Msg("NoGenerateContent")>>
                              ELSE <<MsgV("Usable", generate_models)>>)
                          \o <<MsgV("Totals", <<Len(provided), Len(generate_models)>>)>>
       \/ /\ calls' = Append(calls, Call("list_models", <<>>, TRUE, <<>>))
          /\ out' = out \o <<Msg("Fetching"), Msg("Error")>>
          /\ UNCHANGED <<models, working_models>>
    /\ pc' = "done"
    /\ UNCHANGED <<program, api_key, model_name, model, response, exc>>

(* ---------------------------------------------------------------------- *)
(* Specification                                                          *)
(* ---------------------------------------------------------------------- *)
Next ==
    \/ MainStart
    \/ SetupMissingKey
    \/ SetupConfigure
    \/ ListAvailableModels
    \/ SetupSelect
    \/ MainCheckModel
    \/ AskQuestion
    \/ DisplayResponse
    \/ MainComplete
    \/ CheckModelsMissingKey
    \/ CheckModelsConfigure
    \/ CheckModelsList

Spec == Init /\ [][Next]_vars

\* both scripts are straight-line: the interpreter always runs the next step
FairSpec == Spec /\ WF_vars(Next)

Terminated == pc \in {"done", "crashed"}

(* ---------------------------------------------------------------------- *)
(* Vocabulary of the properties                                           *)
(* ---------------------------------------------------------------------- *)
Basic == program = "basic_connection"

\* setup_gemini has run its selection on a sequence the listing returned
Selected ==
    /\ Basic /\ ~models.none
    /\ pc \in {"main_check", "ask_question", "display_response", "complete",
               "done", "crashed"}

ListedNames == {models.val[i].name : i \in 1..Len(models.val)}
CapableIdx == {i \in 1..Len(models.val) : supports_generate(models.val[i])}
CapableNames == {models.val[i].name : i \in CapableIdx}

IsPreferred(n) == \E i \in 1..Len(preferred_models) : preferred_models[i] = n

\* the preferred name of least index in preferred_models that belongs to S
BestPreferred(S) ==
    LET i == CHOOSE k \in 1..Len(preferred_models) :
                 /\ preferred_models[k] \in S
                 /\ \A j \in 1..(k - 1) : preferred_models[j] \notin S
    IN  preferred_models[i]

Min(S) == CHOOSE x \in S : \A y \in S : x <= y

GenerateCalls == {i \in 1..Len(calls) : calls[i].fn = "generate_content"}
ListCalls == {i \in 1..Len(calls) : calls[i].fn = "list_models"}

(* ---------------------------------------------------------------------- *)
(* C1                                                                     *)
(* ---------------------------------------------------------------------- *)
\* C1 (as stated): whenever the listed sequence contains a preferred name,
\* the selection is the highest-priority preferred name present in it.
C1_PreferredPresentSelected ==
    (Selected /\ \E n \in ListedNames : IsPreferred(n))
        => model_name = BestPreferred(ListedNames)

\* C1 (amended): whenever a descriptor supporting generateContent carries a
\* preferred name, the selection is the highest-priority preferred name among
\* the capable descriptors, whatever its position.
C1_CapablePreferredSelected ==
    (Selected /\ \E n \in CapableNames : IsPreferred(n))
        => model_name = BestPreferred(CapableNames)

\* a capable non-preferred model comes first, a lower-priority preferred one
\* second, and the selection is the higher-priority preferred one behind them
C1_Witness ==
    /\ Selected /\ Len(models.val) = 3
    /\ models.val[1].name = "models/a" /\ supports_generate(models.val[1])
    /\ models.val[2].name = preferred_models[2] /\ supports_generate(models.val[2])
    /\ models.val[3].name = preferred_models[1] /\ supports_generate(models.val[3])
    /\ model_name = preferred_models[1]

(* ---------------------------------------------------------------------- *)
(* C2                                                                     *)
(* ---------------------------------------------------------------------- *)
\* C2: with no preferred name listed and at least one capable descriptor,
\* the selection is the name of the first capable descriptor in provider
\* order; incapable descriptors before it are skipped.
C2_FirstCapableSelected ==
    (Selected /\ CapableIdx # {} /\ \A n \in ListedNames : ~IsPreferred(n))
        => model_name = models.val[Min(CapableIdx)].name

\* an incapable model first, then two capable non-preferred ones: the second
\* descriptor is chosen
C2_Witness ==
    /\ Selected /\ Len(models.val) = 3
    /\ \A n \in ListedNames : ~IsPreferred(n)
    /\ ~supports_generate(models.val[1])
    /\ supports_generate(models.val[2]) /\ supports_generate(models.val[3])
    /\ models.val[1].name = "models/a"
    /\ models.val[2].name = "models/b" /\ models.val[3].name = "models/a"
    /\ model_name = "models/b"

(* ---------------------------------------------------------------------- *)
(* C3                                                                     *)
(* ---------------------------------------------------------------------- *)
\* C3: for an empty sequence and for every sequence without a capable
\* descriptor, setup_gemini reports that no model supports generation,
\* returns no model, and the run makes no generate-content call.
C3_NoCapableReported ==
    (Selected /\ CapableIdx = {})
        => /\ Printed("NoGenerateContent")
           /\ model = NoneStr
           /\ GenerateCalls = {}

(* ---------------------------------------------------------------------- *)
(* C4                                                                     *)
(* ---------------------------------------------------------------------- *)
\* C4: with GOOGLE_API_KEY absent or empty, both scripts print the guidance
\* message and end without invoking configure, list-models or
\* generate-content.
C4_MissingKeyNoCalls ==
    (api_key = NoneStr \/ api_key = "")
        => /\ calls = <<>>
           /\ pc # "crashed"
           /\ pc = "done" => Printed("KeyNotFound")

\* a run with an empty key has ended
C4_Witness ==
    /\ api_key = "" /\ pc = "done" /\ Printed("KeyNotFound")

(* ---------------------------------------------------------------------- *)
(* C5                                                                     *)
(* ---------------------------------------------------------------------- *)
\* C5: every error raised by a network call is caught and printed by the
\* program; a failing generate-content call never leaves main unhandled.
C5_ErrorsCaught ==
    \A i \in 1..Len(calls) :
        calls[i].raised
            => /\ exc = NoneStr
               /\ pc # "crashed"
               /\ Printed("ErrorListing") \/ Printed("Error")
                    \/ Printed("ErrorGenerating")

(* ---------------------------------------------------------------------- *)
(* C6                                                                     *)
(* ---------------------------------------------------------------------- *)
\* C6: a run of basic_connection.main that ends without the success message
\* has printed an error or guidance message.
C6_AbortPrintsError ==
    (Basic /\ Terminated /\ ~Printed("Complete"))
        => \/ Printed("KeyNotFound")
           \/ Printed("ErrorListing")
           \/ Printed("NoGenerateContent")
           \/ Printed("ErrorGenerating")

(* ---------------------------------------------------------------------- *)
(* C7                                                                     *)
(* ---------------------------------------------------------------------- *)
\* C7: list_available_models returns the provider's sequence unchanged
\* (empty included, every descriptor, provider order) without reporting an
\* error, and reports the error and returns None when the provider raises.
C7_ListerOutcome ==
    \A i \in ListCalls :
        Basic =>
            IF calls[i].raised
            THEN models.none /\ Printed("ErrorListing")
            ELSE /\ ~models.none
                 /\ models.val = calls[i].val
                 /\ ~Printed("ErrorListing")

\* the provider reported zero models: an empty sequence, no error
C7_Witness ==
    /\ Basic /\ pc = "setup_select"
    /\ \E i \in ListCalls : ~calls[i].raised /\ calls[i].val = <<>>
    /\ ~models.none /\ models.val = <<>>
    /\ ~Printed("ErrorListing")

(* ---------------------------------------------------------------------- *)
(* C8                                                                     *)
(* ---------------------------------------------------------------------- *)
\* C8: the model named in a generate-content call is the name of a listed
\* descriptor that supports generateContent, and the selected name is never
\* one whose descriptors all lack that capability.
C8_GenerateUsesCapable ==
    /\ \A i \in GenerateCalls :
          ~models.none /\ calls[i].arg \in CapableNames
    /\ (Basic /\ model_name # NoneStr)
          => ~models.none /\ model_name \in CapableNames

\* the top preferred name is listed without the capability and a capable
\* lower-priority one is the model of the call
C8_Witness ==
    /\ Basic /\ ~models.none /\ Len(models.val) = 2
    /\ models.val[1].name = preferred_models[1]
    /\ ~supports_generate(models.val[1])
    /\ models.val[2].name = preferred_models[3]
    /\ supports_generate(models.val[2])
    /\ \E i \in GenerateCalls : calls[i].arg = preferred_models[3]

(* ---------------------------------------------------------------------- *)
(* C9                                                                     *)
(* ---------------------------------------------------------------------- *)
\* the order of the steps of one run, as a state predicate
C9_StepOrder ==
    /\ Cardinality(ListCalls) <= 1
    /\ Cardinality(GenerateCalls) <= 1
    /\ \A g \in GenerateCalls :
          /\ \E l \in ListCalls :
                l < g /\ ~calls[l].raised
                /\ \E k \in 1..Len(calls[l].val) : supports_generate(calls[l].val[k])
          /\ model # NoneStr /\ Printed("UsingModel")
    /\ Printed("ResponseText")
          => \E g \in GenerateCalls : ~calls[g].raised /\ ~response.none
    /\ Printed("Complete") => Printed("ResponseText")
    /\ Printed("UsingModel") => \E l \in ListCalls : ~calls[l].raised

\* C9: list-models, selection, generate-content and printing happen in that
\* order, each after the previous one succeeded, each call at most once, and
\* every run terminates.
C9_OrderedAndTerminates == []C9_StepOrder /\ <>Terminated

\* a run went through every step and reached the closing message
C9_Witness ==
    /\ Basic /\ pc = "done" /\ Printed("Complete")
    /\ Cardinality(ListCalls) = 1 /\ Cardinality(GenerateCalls) = 1

(* ---------------------------------------------------------------------- *)
(* C10                                                                    *)
(* ---------------------------------------------------------------------- *)
\* C10: for every response a successful generate-content call returned,
\* zero candidates included, the text and the metadata are printed and the
\* run reaches the closing message.
C10_ResponseDisplayed ==
    (Basic /\ ~response.none /\ Terminated)
        => /\ Printed("ResponseText") /\ Printed("NumCandidates")
           /\ Printed("FinishReason") /\ Printed("SafetyRatings")
           /\ Printed("Complete")
           /\ exc = NoneStr

====
